---------------------------- MODULE Spec2Model ----------------------------
(***************************************************************************)
(* Model of src/main.py: a FastAPI service over two PostgreSQL tables      *)
(* (users, posts) accessed through SQLAlchemy sessions.                    *)
(*                                                                         *)
(* The store is the committed content of the two tables plus their id      *)
(* sequences.  Every request runs in its own session (get_db) and is a     *)
(* sequence of database statements; requests interleave between            *)
(* statements (READ COMMITTED: each statement sees what is committed when  *)
(* it runs).  A post is returned as PostResponse, whose field user is      *)
(* loaded when the response is built, after the handler has returned, in   *)
(* a statement of its own.  db.commit() flushes the pending INSERT,        *)
(* UPDATE or DELETE and commits in one step; the schema constraints        *)
(* declared on the tables                                                  *)
(* (unique username, unique email, foreign key with ON DELETE CASCADE)     *)
(* are enforced by that step.  No handler catches what db.commit() or      *)
(* db.refresh() raise, so such an exception leaves the handler and the     *)
(* framework answers 500, as it does when the response cannot be built.    *)
(*                                                                         *)
(* Spec      : the handlers called as operations, NumReqs at a time.       *)
(* RouteSpec : the HTTP front: route table, route matching, parameters.    *)
(***************************************************************************)
EXTENDS Integers, Sequences, FiniteSets, TLC

(* ------------------------------ bounds ------------------------------- *)

\* concurrent requests
NumReqs == 2
\* values of the users.id sequence that may be drawn
MaxUserId == 2
\* values of the posts.id sequence that may be drawn
MaxPostId == 2
\* distinct usernames, emails, passwords, titles, contents offered
NumUsernames == 2
NumEmails == 2
NumPasswords == 1
NumTitles == 1
NumContents == 2

Reqs == 1..NumReqs

NamePool == <<"alice", "bob", "carol", "dave">>
EmailPool == <<"a@x.com", "b@x.com", "c@x.com", "d@x.com">>
PasswordPool == <<"pw1", "pw2", "pw3">>
TitlePool == <<"T", "T2", "T3">>
ContentPool == <<"C", "C2", "C3", "C4">>

Usernames == {NamePool[i] : i \in 1..NumUsernames}
Emails == {EmailPool[i] : i \in 1..NumEmails}
Passwords == {PasswordPool[i] : i \in 1..NumPasswords}
Titles == {TitlePool[i] : i \in 1..NumTitles}
Contents == {ContentPool[i] : i \in 1..NumContents}

\* identifiers a request may name: every id the sequences can produce (an
\* id names no row before it is assigned and after its row is deleted)
UserIds == 1..MaxUserId
PostIds == 1..MaxPostId

(* ------------------------------- state ------------------------------- *)

VARIABLES
    users,      \* committed rows of table users
    posts,      \* committed rows of table posts
    user_seq,   \* last value drawn from the users.id sequence
    post_seq,   \* last value drawn from the posts.id sequence
    op,         \* op[r]: the handler request r runs, "none" when r is free
    pc,         \* pc[r]: the statement request r executes next
    locals,     \* locals[r]: the handler's parameters and its db_user / db_post
    session,    \* session[r]: the request's database session
    resp,       \* resp[r]: the response of the request
    http,       \* the HTTP request being routed
    routed      \* the outcome of routing it

storeVars == <<users, posts, user_seq, post_seq>>
reqVars == <<op, pc, locals, session, resp>>
httpVars == <<http, routed>>
vars == <<users, posts, user_seq, post_seq, op, pc, locals, session, resp,
          http, routed>>

(* ----------------------- rows and response shapes -------------------- *)

\* a row built with username and email exchanged
User_Swapped(id, username, email, password) ==
    [id |-> id, username |-> email, email |-> username, password |-> password]

\* a row of table users
User(id, username, email, password) ==
    [id |-> id, username |-> username, email |-> email, password |-> password]

\* a row of table posts
Post(id, title, content, user_id) ==
    [id |-> id, title |-> title, content |-> content, user_id |-> user_id]

\* response_model=UserResponse: id, username, email of the row
UserResponse(u) ==
    [id |-> u.id, username |-> u.username, email |-> u.email]

\* response_model=PostResponse: the post with its owner, loaded from U
PostResponse(p, U) ==
    [id |-> p.id, title |-> p.title, content |-> p.content,
     user |-> UserResponse(CHOOSE u \in U : u.id = p.user_id)]

\* a handler's return value, sent with status 200
Ok(body) == [status |-> 200, body |-> body]

\* raise HTTPException(status_code=..., detail=...)
HTTPException(status_code, detail) == [status |-> status_code, detail |-> detail]

\* an exception no handler catches: the framework answers 500
Unhandled(exc) == [status |-> 500, error |-> exc]

NoResponse == [status |-> 0]

\* what .first() returns when no row matches
None == {}

\* the row .first() returned
First(rows) == CHOOSE x \in rows : TRUE

(* ------------------------------ queries ------------------------------ *)

\* the query without its filter
UserById_NoFilter(U, user_id) == IF U = {} THEN {} ELSE {CHOOSE u \in U : TRUE}

\* db.query(User).filter(User.id == user_id).first(), as a set of 0 or 1 rows
UserById(U, user_id) == {u \in U : u.id = user_id}

\* db.query(Post).filter(Post.id == post_id).first(), as a set of 0 or 1 rows
PostById(P, post_id) == {p \in P : p.id = post_id}

\* the check with & in place of |
UsernameOrEmailTaken_And(U, username, email) ==
    \E u \in U : u.username = username /\ u.email = email

\* the uniqueness check of create_user: a row with this username or this email
UsernameOrEmailTaken(U, username, email) ==
    \E u \in U : u.username = username \/ u.email = email

\* the check of change_user_email: a row with this email
EmailTaken(U, email) == \E u \in U : u.email = email

(* ------------------------------ read results ------------------------ *)

\* get_users: every row, as UserResponse (the query has no ORDER BY)
ListUsers(U) == Ok({UserResponse(u) : u \in U})

\* get_user: the row as UserResponse, or 404
GetUser(U, user_id) ==
    IF UserById(U, user_id) = None
    THEN HTTPException(404, "User not found")
    ELSE Ok(UserResponse(First(UserById(U, user_id))))

\* a returned post under response_model=PostResponse, its owner looked up
\* in U: without an owner the field user is None and the response fails
\* its validation
Serialized(p, U) ==
    IF UserById(U, p.user_id) = None
    THEN Unhandled("ResponseValidationError")
    ELSE Ok(PostResponse(p, U))

\* get_posts when nothing runs between its statements: every row with its
\* owner, as PostResponse
ListPosts(P, U) ==
    IF \E p \in P : UserById(U, p.user_id) = None
    THEN Unhandled("ResponseValidationError")
    ELSE Ok({PostResponse(p, U) : p \in P})

\* get_post when nothing runs between its statements: the row with its
\* owner as PostResponse, or 404
GetPost(P, U, post_id) ==
    IF PostById(P, post_id) = None
    THEN HTTPException(404, "Post not found")
    ELSE Serialized(First(PostById(P, post_id)), U)

(* ------------------------------- writes ------------------------------ *)

\* db_user.email = email
SetEmail(u, email) == [u EXCEPT !.email = email]

\* an update that writes the title as well
SetContent_AndTitle(p, content) == [p EXCEPT !.content = content, !.title = content]

\* db_post.content = content
SetContent(p, content) == [p EXCEPT !.content = content]

(* ------------------------- schema constraints ------------------------ *)

\* a users table whose email column is not unique
InsertUserOk_EmailNotUnique(U, row) ==
    \A u \in U : u.username # row.username

\* users.username and users.email are unique=True: INSERT of row is accepted
InsertUserOk(U, row) ==
    \A u \in U : u.username # row.username /\ u.email # row.email

\* users.email is unique=True: UPDATE users SET email WHERE id is accepted
UpdateEmailOk(U, user_id, email) ==
    \A u \in U : u.id # user_id => u.email # email

\* a posts table whose user_id is no foreign key
InsertPostOk_NoForeignKey(U, row) == TRUE

\* posts.user_id is a ForeignKey('users.id'): INSERT of row is accepted
InsertPostOk(U, row) == \E u \in U : u.id = row.user_id

\* ondelete="CASCADE" and cascade="all, delete": the posts left when user
\* user_id is deleted
PostsAfterUserDelete(P, user_id) == {p \in P : p.user_id # user_id}

(* ----------------------------- HTTP front ---------------------------- *)

NoRequest == [method |-> "none"]
NoRoute == [endpoint |-> "none", status |-> 0]

\* the decorators of main.py, in the order they register their routes
Routes ==
    << [method |-> "GET", path |-> "/", endpoint |-> "read_root"],
       [method |-> "POST", path |-> "/users/", endpoint |-> "create_user"],
       [method |-> "GET", path |-> "/users/", endpoint |-> "get_users"],
       [method |-> "GET", path |-> "/users/{user_id}", endpoint |-> "get_user"],
       [method |-> "DELETE", path |-> "/users/{user_id}",
        endpoint |-> "delete_user"],
       [method |-> "POST", path |-> "/users/",
        endpoint |-> "change_user_email"],
       [method |-> "PUT", path |-> "/posts/{post_id}",
        endpoint |-> "update_post_content"],
       [method |-> "POST", path |-> "/posts/", endpoint |-> "create_post"],
       [method |-> "GET", path |-> "/posts/", endpoint |-> "get_posts"],
       [method |-> "GET", path |-> "/posts/{post_id}", endpoint |-> "get_post"],
       [method |-> "DELETE", path |-> "/posts/{post_id}",
        endpoint |-> "delete_post"] >>

Methods == {"GET", "POST", "PUT", "DELETE"}

\* the path of a request: a route path, with a number where the route has
\* a parameter (id = 0: the path ends at the collection)
RequestPaths ==
    {[path |-> "/", id |-> 0]}
    \cup [path : {"/users/"}, id : {0} \cup UserIds]
    \cup [path : {"/posts/"}, id : {0} \cup PostIds]

\* what a request carries: a JSON body of one of the two schemas, or query
\* parameters
Payloads == {"none", "UserCreate", "PostCreate", "user_id&email", "content"}

HttpRequests == [method : Methods, target : RequestPaths, payload : Payloads]

\* the route path matches the request path
PathMatches(path, target) ==
    CASE path = "/" -> target.path = "/"
      [] path = "/users/" -> target.path = "/users/" /\ target.id = 0
      [] path = "/users/{user_id}" -> target.path = "/users/" /\ target.id # 0
      [] path = "/posts/" -> target.path = "/posts/" /\ target.id = 0
      [] path = "/posts/{post_id}" -> target.path = "/posts/" /\ target.id # 0

\* the parameters the endpoint's signature requires are in the request
Validates(endpoint, payload) ==
    CASE endpoint = "create_user" -> payload = "UserCreate"
      [] endpoint = "change_user_email" -> payload = "user_id&email"
      [] endpoint = "update_post_content" -> payload = "content"
      [] endpoint = "create_post" -> payload = "PostCreate"
      [] OTHER -> TRUE

\* route resolution: the first route, in registration order, whose path and
\* method match takes the request (422 when its parameters are missing);
\* a path that matches with another method only is answered 405, a path
\* that matches no route 404
Resolve(h) ==
    LET full == {i \in DOMAIN Routes :
                    /\ PathMatches(Routes[i].path, h.target)
                    /\ Routes[i].method = h.method}
        partial == {i \in DOMAIN Routes : PathMatches(Routes[i].path, h.target)}
        first == CHOOSE i \in full : \A j \in full : i <= j
    IN  IF full # {}
        THEN [endpoint |-> Routes[first].endpoint,
              status |-> IF Validates(Routes[first].endpoint, h.payload)
                         THEN 200 ELSE 422]
        ELSE IF partial # {}
        THEN [endpoint |-> "method_not_allowed", status |-> 405]
        ELSE [endpoint |-> "not_found", status |-> 404]

\* a request arrives
Receive(h) ==
    /\ http = NoRequest
    /\ http' = h
    /\ UNCHANGED <<routed, storeVars, reqVars>>

\* the application resolves its route
Dispatch ==
    /\ http # NoRequest
    /\ routed = NoRoute
    /\ routed' = Resolve(http)
    /\ UNCHANGED <<http, storeVars, reqVars>>

\* the request leaves the front
Leave ==
    /\ routed # NoRoute
    /\ http' = NoRequest
    /\ routed' = NoRoute
    /\ UNCHANGED <<storeVars, reqVars>>

(* --------------------------- request frame --------------------------- *)

\* the handlers that take a session from get_db
Handlers ==
    {"create_user", "get_users", "get_user", "delete_user",
     "change_user_email", "update_post_content", "create_post",
     "get_posts", "get_post", "delete_post"}

\* the parameters each handler declares
ArgsOf(o) ==
    CASE o = "create_user" ->
           [username : Usernames, email : Emails, password : Passwords]
      [] o = "get_user" -> [user_id : UserIds]
      [] o = "delete_user" -> [user_id : UserIds]
      [] o = "change_user_email" -> [user_id : UserIds, email : Emails]
      [] o = "update_post_content" -> [post_id : PostIds, content : Contents]
      [] o = "create_post" ->
           [title : Titles, content : Contents, user_id : UserIds]
      [] o = "get_post" -> [post_id : PostIds]
      [] o = "delete_post" -> [post_id : PostIds]
      [] OTHER -> {<<>>}

\* requests that have added a row and will draw an id at their commit
PendingInserts(o) ==
    Cardinality({r \in Reqs : op[r] = o /\ pc[r] = "commit"})

\* the sequences are bounded: a request goes on to insert a row only while
\* an id is left for it (a request that is answered 400 or 404 draws none)
SeqLeft(o) ==
    CASE o = "create_user" -> user_seq + PendingInserts(o) < MaxUserId
      [] o = "create_post" -> post_seq + PendingInserts(o) < MaxPostId
      [] OTHER -> TRUE

\* the handler goes on to statement label with locals l
Goto(r, label, l) ==
    /\ pc' = [pc EXCEPT ![r] = label]
    /\ locals' = [locals EXCEPT ![r] = l]
    /\ UNCHANGED resp

\* the request, whose parameters are a, ends with this response (returned
\* or raised); the request keeps its parameters, the handler's objects go
\* out of scope
Finish(r, a, response) ==
    /\ resp' = [resp EXCEPT ![r] = response]
    /\ locals' = [locals EXCEPT ![r] = a]
    /\ pc' = [pc EXCEPT ![r] = "close"]

\* the names of the handlers' parameters
ParamNames ==
    {"username", "email", "password", "user_id", "post_id", "title", "content"}

\* the parameters among the locals l
Params(l) == [k \in DOMAIN l \cap ParamNames |-> l[k]]

Init ==
    /\ users = {}
    /\ posts = {}
    /\ user_seq = 0
    /\ post_seq = 0
    /\ op = [r \in Reqs |-> "none"]
    /\ pc = [r \in Reqs |-> "idle"]
    /\ locals = [r \in Reqs |-> <<>>]
    /\ session = [r \in Reqs |-> "none"]
    /\ resp = [r \in Reqs |-> NoResponse]
    /\ http = NoRequest
    /\ routed = NoRoute

\* get_db up to its yield, for a request resolved to handler o:
\* db = SessionLocal().  Nothing is read yet
get_db_open(r) ==
    /\ pc[r] = "idle"
    /\ \E o \in Handlers : op' = [op EXCEPT ![r] = o]
    /\ pc' = [pc EXCEPT ![r] = "start"]
    /\ session' = [session EXCEPT ![r] = "open"]
    /\ UNCHANGED <<locals, resp, storeVars, httpVars>>

\* get_db without try/finally: db.close() is skipped when the handler raised
get_db_close_NoFinally(r) ==
    /\ pc[r] = "close"
    /\ session' = [session EXCEPT ![r] =
                       IF resp[r].status = 200 THEN "closed" ELSE "open"]
    /\ op' = [op EXCEPT ![r] = "none"]
    /\ locals' = [locals EXCEPT ![r] = <<>>]
    /\ resp' = [resp EXCEPT ![r] = NoResponse]
    /\ pc' = [pc EXCEPT ![r] = "idle"]
    /\ UNCHANGED <<storeVars, httpVars>>

\* get_db after its yield: finally db.close(), whatever the handler did.
\* It is the last statement of the request: the response leaves with it
get_db_close(r) ==
    /\ pc[r] = "close"
    /\ session' = [session EXCEPT ![r] = "closed"]
    /\ op' = [op EXCEPT ![r] = "none"]
    /\ locals' = [locals EXCEPT ![r] = <<>>]
    /\ resp' = [resp EXCEPT ![r] = NoResponse]
    /\ pc' = [pc EXCEPT ![r] = "idle"]
    /\ UNCHANGED <<storeVars, httpVars>>

\* the request lacks what the handler's signature requires: the session is
\* open, the handler is not called and the answer is 422
RequestValidationError(r) ==
    /\ pc[r] = "start"
    /\ \E p \in Payloads : ~Validates(op[r], p)
    /\ Finish(r, <<>>, HTTPException(422, "Unprocessable Entity"))
    /\ UNCHANGED <<storeVars, op, session, httpVars>>

\* db.refresh(db_user); return db_user.  The row is read again by primary
\* key; UserResponse needs nothing more than the row
RefreshUser(r) ==
    LET found == UserById(users, locals[r].db_user.id) IN
    IF found = None
    THEN Finish(r, Params(locals[r]), Unhandled("InvalidRequestError"))
    ELSE Finish(r, Params(locals[r]), Ok(UserResponse(First(found))))

\* the locals of a handler that has loaded db_user
WithUser(a, row) == a @@ [db_user |-> row]

\* the locals of a handler that has loaded db_post
WithPost(a, row) == a @@ [db_post |-> row]

\* the locals of a request whose handler has returned the posts rows: the
\* response is still to be built, no owner is loaded yet
Returned(a, rows) == a @@ [rows |-> rows, owners |-> {}, absent |-> {}]

\* db.refresh(db_post); return db_post.  The row is read again by primary
\* key; its owner is not loaded by the refresh
RefreshPost(r) ==
    LET found == PostById(posts, locals[r].db_post.id) IN
    IF found = None
    THEN Finish(r, Params(locals[r]), Unhandled("InvalidRequestError"))
    ELSE Goto(r, "serialize", Returned(Params(locals[r]), found))

\* the owners of the returned posts that the response still has to load
OwnersToLoad(l) ==
    {p.user_id : p \in l.rows} \ ({u.id : u \in l.owners} \cup l.absent)

\* response_model=PostResponse / list[PostResponse]: the read of Post.user
\* loads one owner by primary key, in a round trip of its own; the response
\* is built once every owner has been looked up
serialize_response(r) ==
    /\ pc[r] = "serialize"
    /\ LET l == locals[r] IN
       \E i \in OwnersToLoad(l) :
          LET found == UserById(users, i)
              owners == l.owners \cup found
              absent == IF found = None THEN l.absent \cup {i} ELSE l.absent
          IN  IF OwnersToLoad(l) = {i}
              THEN Finish(r, Params(l),
                          IF op[r] = "get_posts"
                          THEN ListPosts(l.rows, owners)
                          ELSE Serialized(First(l.rows), owners))
              ELSE Goto(r, "serialize",
                        [l EXCEPT !.owners = owners, !.absent = absent])
    /\ UNCHANGED <<storeVars, op, session, httpVars>>

(* ------------------------------ handlers ----------------------------- *)
(* A handler runs in the session get_db has opened for the request; its    *)
(* statements are its queries, its db.commit() and its db.refresh().       *)

At(r, o, label) == op[r] = o /\ pc[r] = label

\* create_user: the uniqueness query, raise 400 or db.add(db_user)
create_user_query(r) ==
    /\ At(r, "create_user", "start")
    /\ \E a \in ArgsOf("create_user") :
       IF UsernameOrEmailTaken(users, a.username, a.email)
       THEN Finish(r, a, HTTPException(400,
                "User with this username or email already exists"))
       ELSE SeqLeft("create_user") /\ Goto(r, "commit", a)
    /\ UNCHANGED <<storeVars, op, session, httpVars>>

\* create_user: db.commit() inserts the row with the next id of the sequence
create_user_commit(r) ==
    /\ At(r, "create_user", "commit")
    /\ LET a == locals[r]
           row == User(user_seq + 1, a.username, a.email, a.password) IN
       /\ user_seq' = user_seq + 1
       /\ IF InsertUserOk(users, row)
          THEN /\ users' = users \cup {row}
               /\ Goto(r, "refresh", WithUser(a, row))
          ELSE /\ Finish(r, Params(a), Unhandled("IntegrityError"))
               /\ UNCHANGED users
    /\ UNCHANGED <<posts, post_seq, op, session, httpVars>>

\* create_user: db.refresh(db_user); return db_user
create_user_refresh(r) ==
    /\ At(r, "create_user", "refresh")
    /\ RefreshUser(r)
    /\ UNCHANGED <<storeVars, op, session, httpVars>>

\* get_users: return db.query(User).all()
get_users(r) ==
    /\ At(r, "get_users", "start")
    /\ Finish(r, <<>>, ListUsers(users))
    /\ UNCHANGED <<storeVars, op, session, httpVars>>

\* get_user: the row by id, or 404
get_user(r) ==
    /\ At(r, "get_user", "start")
    /\ \E a \in ArgsOf("get_user") : Finish(r, a, GetUser(users, a.user_id))
    /\ UNCHANGED <<storeVars, op, session, httpVars>>

\* delete_user: the row by id, raise 404 or db.delete(db_user)
delete_user_query(r) ==
    /\ At(r, "delete_user", "start")
    /\ \E a \in ArgsOf("delete_user") :
       LET db_user == UserById(users, a.user_id) IN
       IF db_user = None
       THEN Finish(r, a, HTTPException(404, "User not found"))
       ELSE Goto(r, "commit", WithUser(a, First(db_user)))
    /\ UNCHANGED <<storeVars, op, session, httpVars>>

\* delete_user: db.commit() deletes the user's posts and the user; a DELETE
\* that matches no row is not an error
delete_user_commit(r) ==
    /\ At(r, "delete_user", "commit")
    /\ users' = users \ UserById(users, locals[r].db_user.id)
    /\ posts' = PostsAfterUserDelete(posts, locals[r].db_user.id)
    /\ Finish(r, Params(locals[r]), Ok([message |-> "User deleted"]))
    /\ UNCHANGED <<user_seq, post_seq, op, session, httpVars>>

\* change_user_email: the row by id, or 404
change_user_email_query(r) ==
    /\ At(r, "change_user_email", "start")
    /\ \E a \in ArgsOf("change_user_email") :
       LET db_user == UserById(users, a.user_id) IN
       IF db_user = None
       THEN Finish(r, a, HTTPException(404, "User not found"))
       ELSE Goto(r, "query2", WithUser(a, First(db_user)))
    /\ UNCHANGED <<storeVars, op, session, httpVars>>

\* change_user_email: any row with the new email raises 400; otherwise
\* db_user.email = email
change_user_email_query2(r) ==
    /\ At(r, "change_user_email", "query2")
    /\ IF EmailTaken(users, locals[r].email)
       THEN Finish(r, Params(locals[r]),
                   HTTPException(400, "Email is already taken"))
       ELSE Goto(r, "commit", locals[r])
    /\ UNCHANGED <<storeVars, op, session, httpVars>>

\* change_user_email: db.commit().  An attribute set to the value the object
\* was loaded with is no change and emits no UPDATE; an UPDATE that matches
\* no row raises StaleDataError
change_user_email_commit(r) ==
    /\ At(r, "change_user_email", "commit")
    /\ LET a == locals[r]
           row == UserById(users, a.db_user.id) IN
       IF a.db_user.email = a.email
       THEN Goto(r, "refresh", a) /\ UNCHANGED users
       ELSE IF row = None
       THEN Finish(r, Params(a), Unhandled("StaleDataError")) /\ UNCHANGED users
       ELSE IF ~UpdateEmailOk(users, a.db_user.id, a.email)
       THEN Finish(r, Params(a), Unhandled("IntegrityError")) /\ UNCHANGED users
       ELSE /\ users' = (users \ row) \cup
                  {SetEmail(u, a.email) : u \in row}
            /\ Goto(r, "refresh", a)
    /\ UNCHANGED <<posts, user_seq, post_seq, op, session, httpVars>>

\* change_user_email: db.refresh(db_user); return db_user
change_user_email_refresh(r) ==
    /\ At(r, "change_user_email", "refresh")
    /\ RefreshUser(r)
    /\ UNCHANGED <<storeVars, op, session, httpVars>>

\* update_post_content: the row by id, raise 404 or db_post.content = content
update_post_content_query(r) ==
    /\ At(r, "update_post_content", "start")
    /\ \E a \in ArgsOf("update_post_content") :
       LET db_post == PostById(posts, a.post_id) IN
       IF db_post = None
       THEN Finish(r, a, HTTPException(404, "Post not found"))
       ELSE Goto(r, "commit", WithPost(a, First(db_post)))
    /\ UNCHANGED <<storeVars, op, session, httpVars>>

\* update_post_content: db.commit(), as for change_user_email
update_post_content_commit(r) ==
    /\ At(r, "update_post_content", "commit")
    /\ LET a == locals[r]
           row == PostById(posts, a.db_post.id) IN
       IF a.db_post.content = a.content
       THEN Goto(r, "refresh", a) /\ UNCHANGED posts
       ELSE IF row = None
       THEN Finish(r, Params(a), Unhandled("StaleDataError")) /\ UNCHANGED posts
       ELSE /\ posts' = (posts \ row) \cup
                  {SetContent(p, a.content) : p \in row}
            /\ Goto(r, "refresh", a)
    /\ UNCHANGED <<users, user_seq, post_seq, op, session, httpVars>>

\* update_post_content: db.refresh(db_post); return db_post
update_post_content_refresh(r) ==
    /\ At(r, "update_post_content", "refresh")
    /\ RefreshPost(r)
    /\ UNCHANGED <<storeVars, op, session, httpVars>>

\* create_post: the owner by id, raise 404 or db.add(db_post)
create_post_query(r) ==
    /\ At(r, "create_post", "start")
    /\ \E a \in ArgsOf("create_post") :
       IF UserById(users, a.user_id) = None
       THEN Finish(r, a, HTTPException(404, "User not found"))
       ELSE SeqLeft("create_post") /\ Goto(r, "commit", a)
    /\ UNCHANGED <<storeVars, op, session, httpVars>>

\* create_post: db.commit() inserts the row with the next id of the sequence
create_post_commit(r) ==
    /\ At(r, "create_post", "commit")
    /\ LET a == locals[r]
           row == Post(post_seq + 1, a.title, a.content, a.user_id) IN
       /\ post_seq' = post_seq + 1
       /\ IF InsertPostOk(users, row)
          THEN /\ posts' = posts \cup {row}
               /\ Goto(r, "refresh", WithPost(a, row))
          ELSE /\ Finish(r, Params(a), Unhandled("IntegrityError"))
               /\ UNCHANGED posts
    /\ UNCHANGED <<users, user_seq, op, session, httpVars>>

\* create_post: db.refresh(db_post); return db_post
create_post_refresh(r) ==
    /\ At(r, "create_post", "refresh")
    /\ RefreshPost(r)
    /\ UNCHANGED <<storeVars, op, session, httpVars>>

\* get_posts: return db.query(Post).all(); an empty list is the response
get_posts(r) ==
    /\ At(r, "get_posts", "start")
    /\ IF posts = {}
       THEN Finish(r, <<>>, ListPosts(posts, users))
       ELSE Goto(r, "serialize", Returned(<<>>, posts))
    /\ UNCHANGED <<storeVars, op, session, httpVars>>

\* get_post: the row by id, raise 404 or return db_post
get_post(r) ==
    /\ At(r, "get_post", "start")
    /\ \E a \in ArgsOf("get_post") :
       LET db_post == PostById(posts, a.post_id) IN
       IF db_post = None
       THEN Finish(r, a, HTTPException(404, "Post not found"))
       ELSE Goto(r, "serialize", Returned(a, db_post))
    /\ UNCHANGED <<storeVars, op, session, httpVars>>

\* delete_post: the row by id, raise 404 or db.delete(db_post)
delete_post_query(r) ==
    /\ At(r, "delete_post", "start")
    /\ \E a \in ArgsOf("delete_post") :
       LET db_post == PostById(posts, a.post_id) IN
       IF db_post = None
       THEN Finish(r, a, HTTPException(404, "Post not found"))
       ELSE Goto(r, "commit", WithPost(a, First(db_post)))
    /\ UNCHANGED <<storeVars, op, session, httpVars>>

\* delete_post: db.commit() deletes the row; a DELETE that matches no row is
\* not an error
delete_post_commit(r) ==
    /\ At(r, "delete_post", "commit")
    /\ posts' = posts \ PostById(posts, locals[r].db_post.id)
    /\ Finish(r, Params(locals[r]), Ok([message |-> "Post deleted"]))
    /\ UNCHANGED <<users, user_seq, post_seq, op, session, httpVars>>

\* one step of request r
Step(r) ==
    \/ get_db_open(r) \/ RequestValidationError(r)
    \/ create_user_query(r) \/ create_user_commit(r) \/ create_user_refresh(r)
    \/ get_users(r) \/ get_user(r)
    \/ delete_user_query(r) \/ delete_user_commit(r)
    \/ change_user_email_query(r) \/ change_user_email_query2(r)
    \/ change_user_email_commit(r) \/ change_user_email_refresh(r)
    \/ update_post_content_query(r) \/ update_post_content_commit(r)
    \/ update_post_content_refresh(r)
    \/ create_post_query(r) \/ create_post_commit(r) \/ create_post_refresh(r)
    \/ get_posts(r) \/ get_post(r)
    \/ delete_post_query(r) \/ delete_post_commit(r)
    \/ serialize_response(r)
    \/ get_db_close(r)

Next == \E r \in Reqs : Step(r)

Spec == Init /\ [][Next]_vars

RouteNext == (\E h \in HttpRequests : Receive(h)) \/ Dispatch \/ Leave

RouteSpec == Init /\ [][RouteNext]_vars

(* ------------------------------- claims ------------------------------ *)

\* request r takes a step
Moved(r) == pc'[r] # pc[r]

\* request r runs the first statement of handler o
Starts(r, o) == At(r, o, "start") /\ Moved(r) /\ resp'[r].status # 422

\* request r is at the end of handler o, its response decided
Ended(r, o) == op[r] = o /\ pc[r] = "close"

\* C1: in every reachable state no two distinct stored users have the same
\* username and no two distinct stored users have the same email.
C1_UniqueUsers ==
    \A u, v \in users :
        u # v => u.username # v.username /\ u.email # v.email

\* a change of email passed its check, a second user was created with that
\* email meanwhile, and the schema refused the change at commit
C1_Witness ==
    /\ Cardinality(users) = 2
    /\ \E r \in Reqs :
          /\ Ended(r, "change_user_email")
          /\ resp[r] = Unhandled("IntegrityError")
          /\ \E u \in users : u.email = locals[r].email /\ u.id # locals[r].user_id

\* C2: every stored post's user_id is the id of a stored user; when
\* deleteUser(id) commits, id and every post it owned are gone, listPosts
\* shows no post owned by id and getPost of each such post is NotFound; ids
\* are never assigned again, so this stays so; get_posts and get_post
\* return stored posts only, and 404 for a post that is not stored.
C2_NoOrphans ==
    /\ [](\A p \in posts : \E u \in users : u.id = p.user_id)
    /\ [](/\ \A u \in users : u.id <= user_seq
          /\ \A p \in posts : p.id <= post_seq
          /\ \A i \in 1..user_seq :
                UserById(users, i) = None =>
                    /\ ListPosts(posts, users).status = 200
                    /\ \A pr \in ListPosts(posts, users).body :
                          pr.user.id # i)
    /\ [][\A r \in Reqs :
            /\ (At(r, "delete_user", "commit") /\ Moved(r)) =>
                  LET i == locals[r].user_id IN
                  /\ resp'[r].status = 200
                  /\ GetUser(users', i).status = 404
                  /\ ListPosts(posts', users').status = 200
                  /\ \A pr \in ListPosts(posts', users').body : pr.user.id # i
                  /\ \A p \in posts :
                        p.user_id = i =>
                            GetPost(posts', users', p.id).status = 404
            /\ (At(r, "get_posts", "start") /\ Moved(r)) =>
                  \/ pc'[r] = "serialize" /\ locals'[r].rows = posts
                  \/ posts = {} /\ resp'[r] = Ok({})
            /\ (At(r, "get_post", "start") /\ Moved(r)) =>
                  \/ pc'[r] = "serialize" /\ locals'[r].rows \subseteq posts
                  \/ /\ PostById(posts, locals'[r].post_id) = None
                     /\ resp'[r].status = 404
            /\ \A u \in users' \ users :
                  u.id > user_seq \/ \E v \in users : v.id = u.id
            /\ \A p \in posts' \ posts :
                  p.id > post_seq \/ \E q \in posts : q.id = p.id]_vars

\* deleteUser succeeded while a createPost for the same user was between its
\* check and its commit; the post was refused and none is stored
C2_Witness ==
    \E r, q \in Reqs :
        /\ Ended(r, "delete_user") /\ resp[r].status = 200
        /\ Ended(q, "create_post") /\ resp[q] = Unhandled("IntegrityError")
        /\ locals[q].user_id = locals[r].user_id
        /\ \A p \in posts : p.user_id # locals[r].user_id

\* C3: createUser whose username or whose email is that of a stored user when
\* the handler checks yields 400 and leaves users and posts unchanged, in
\* that statement and in the rest of the request.
C3_DuplicateIsConflict ==
    [][\A r \in Reqs :
         /\ Starts(r, "create_user") =>
               LET a == locals'[r] IN
               (\E u \in users : u.username = a.username \/ u.email = a.email)
                   => /\ pc'[r] = "close"
                      /\ resp'[r].status = 400
                      /\ users' = users /\ posts' = posts
         /\ (Ended(r, "create_user") /\ resp[r].status = 400 /\ Moved(r))
               => users' = users /\ posts' = posts]_vars

\* createUser with the username of a stored user and an email no user has
\* was answered 400
C3_Witness ==
    \E r \in Reqs :
        /\ Ended(r, "create_user") /\ resp[r].status = 400
        /\ \E u \in users : u.username = locals[r].username
        /\ \A u \in users : u.email # locals[r].email

\* C4: changeUserEmail yields NotFound exactly when id references no user,
\* yields Conflict only when the new email is used by a user other than id,
\* and a success returns the user with the new email.
C4_ConflictOnlyForOtherUser ==
    [][\A r \in Reqs :
         /\ Starts(r, "change_user_email") =>
               (resp'[r].status = 404
                    <=> UserById(users, locals'[r].user_id) = None)
         /\ (At(r, "change_user_email", "query2") /\ Moved(r)) =>
               (resp'[r].status = 400
                    <=> \E u \in users : /\ u.email = locals[r].email
                                         /\ u.id # locals[r].user_id)
         /\ (At(r, "change_user_email", "refresh") /\ Moved(r)
                /\ resp'[r].status = 200) =>
               resp'[r].body.email = locals[r].email]_vars

\* C5: createPost whose user_id is the id of no stored user when the handler
\* looks it up yields 404 and changes neither users nor posts; createPost
\* whose user is stored when the post is inserted inserts exactly one post,
\* with the request's title and content and owned by that user, and nothing
\* else of the request changes users or posts.
C5_CreatePost ==
    [][\A r \in Reqs :
         /\ Starts(r, "create_post") =>
               /\ users' = users /\ posts' = posts
               /\ IF \E u \in users : u.id = locals'[r].user_id
                  THEN pc'[r] = "commit"
                  ELSE /\ pc'[r] = "close"
                       /\ resp'[r] = [status |-> 404, detail |-> "User not found"]
         /\ (At(r, "create_post", "commit") /\ Moved(r)
                /\ \E u \in users : u.id = locals[r].user_id) =>
               /\ users' = users
               /\ \E p \in posts' :
                     /\ p \notin posts
                     /\ posts' = posts \cup {p}
                     /\ p.user_id = locals[r].user_id
                     /\ p.title = locals[r].title
                     /\ p.content = locals[r].content
         /\ (op[r] = "create_post"
                /\ pc[r] \in {"refresh", "serialize", "close"}
                /\ Moved(r)) =>
               users' = users /\ posts' = posts]_vars

\* one createPost has inserted its post and another, for a user that is not
\* stored, was answered 404
C5_Witness ==
    \E r, q \in Reqs :
        /\ At(r, "create_post", "refresh")
        /\ locals[r].db_post \in posts
        /\ locals[r].db_post.user_id = locals[r].user_id
        /\ Ended(q, "create_post") /\ resp[q].status = 404
        /\ \A u \in users : u.id # locals[q].user_id

\* C6: every request whose handler was called and that does not succeed
\* ends with status 400 or 404: no exception leaves the request as an
\* unhandled failure.  (The 422 of a request refused before its handler is
\* left aside.)
C6_ErrorsAre400Or404 ==
    \A r \in Reqs :
        (pc[r] = "close" /\ resp[r].status # 422)
            => resp[r].status \in {200, 400, 404}

\* C7: createUser with a username and an email that no stored user has
\* passes the check and, when they are still free at the insert, stores the
\* user under a fresh id; getUser of that id then returns that id, the
\* username and the email of the request, and so does createUser itself
\* while the row is as inserted.  A post inserted by createPost is returned
\* by a getPost that follows at once, and by createPost itself while the
\* row is as inserted, with the request's title, content and owner.
C7_RoundTrip ==
    [][\A r \in Reqs :
         /\ Starts(r, "create_user") =>
               LET a == locals'[r] IN
               (\A u \in users : u.username # a.username /\ u.email # a.email)
                   => pc'[r] = "commit"
         /\ (At(r, "create_user", "commit") /\ Moved(r)
                /\ \A u \in users : /\ u.username # locals[r].username
                                    /\ u.email # locals[r].email) =>
               LET a == locals[r]
                   id == user_seq + 1 IN
               /\ pc'[r] = "refresh"
               /\ locals'[r].db_user.id = id
               /\ \A u \in users : u.id # id
               /\ GetUser(users', id) =
                     [status |-> 200,
                      body |-> [id |-> id, username |-> a.username,
                                email |-> a.email]]
         /\ (At(r, "create_user", "refresh") /\ Moved(r)
                /\ locals[r].db_user \in users) =>
               /\ resp'[r] = GetUser(users, locals[r].db_user.id)
               /\ resp'[r] =
                     [status |-> 200,
                      body |-> [id |-> locals[r].db_user.id,
                                username |-> locals[r].username,
                                email |-> locals[r].email]]
         /\ (At(r, "create_post", "commit") /\ Moved(r)
                /\ \E u \in users : u.id = locals[r].user_id) =>
               LET a == locals[r]
                   id == post_seq + 1
                   got == GetPost(posts', users', id) IN
               /\ pc'[r] = "refresh"
               /\ locals'[r].db_post.id = id
               /\ got.status = 200
               /\ got.body.id = id
               /\ got.body.title = a.title
               /\ got.body.content = a.content
               /\ got.body.user.id = a.user_id
               /\ \E u \in users : got.body.user =
                     [id |-> u.id, username |-> u.username, email |-> u.email]
         /\ (At(r, "create_post", "refresh") /\ Moved(r)
                /\ locals[r].db_post \in posts) =>
               /\ pc'[r] = "serialize"
               /\ locals'[r].rows = {locals[r].db_post}
         /\ (At(r, "create_post", "serialize") /\ Moved(r)
                /\ locals[r].rows \subseteq posts
                /\ \A p \in locals[r].rows : p.content = locals[r].content) =>
               /\ resp'[r] = GetPost(posts, users, First(locals[r].rows).id)
               /\ resp'[r].status = 200
               /\ resp'[r].body.title = locals[r].title
               /\ resp'[r].body.content = locals[r].content
               /\ resp'[r].body.user.id = locals[r].user_id]_vars

\* createUser has returned the user it stored and a getUser of the returned
\* id has returned the same id, username and email
C7_Witness ==
    \E r, q \in Reqs :
        /\ Ended(r, "create_user") /\ resp[r].status = 200
        /\ resp[r].body.username = locals[r].username
        /\ resp[r].body.email = locals[r].email
        /\ Ended(q, "get_user") /\ resp[q].status = 200
        /\ locals[q].user_id = resp[r].body.id
        /\ resp[q].body = resp[r].body

\* C8: a changeUserEmail request changes at most the email of the user it
\* addresses, and to the new value; an updatePostContent request changes at
\* most the content of the post it addresses, and to the new value; an
\* updatePostContent with the content the post already has changes nothing.
C8_FieldLimited ==
    [][\A r \in Reqs :
         /\ (Moved(r) /\ "change_user_email" \in {op[r], op'[r]}) =>
               /\ posts' = posts
               /\ \/ users' = users
                  \/ /\ At(r, "change_user_email", "commit")
                     /\ \E u \in users :
                           /\ u.id = locals[r].user_id
                           /\ users' = (users \ {u}) \cup
                                 {[id |-> u.id, username |-> u.username,
                                   email |-> locals[r].email,
                                   password |-> u.password]}
         /\ (Moved(r) /\ "update_post_content" \in {op[r], op'[r]}) =>
               /\ users' = users
               /\ \/ posts' = posts
                  \/ /\ At(r, "update_post_content", "commit")
                     /\ \E p \in posts :
                           /\ p.id = locals[r].post_id
                           /\ posts' = (posts \ {p}) \cup
                                 {[id |-> p.id, title |-> p.title,
                                   content |-> locals[r].content,
                                   user_id |-> p.user_id]}
         /\ (At(r, "update_post_content", "commit") /\ Moved(r)
                /\ \E p \in posts : /\ p.id = locals[r].post_id
                                    /\ p.content = locals[r].content) =>
               posts' = posts /\ users' = users]_vars

\* an updatePostContent has written a new content while a second post is
\* stored
C8_Witness ==
    \E r \in Reqs :
        /\ At(r, "update_post_content", "refresh")
        /\ locals[r].db_post.content # locals[r].content
        /\ \E p \in posts : /\ p.id = locals[r].post_id
                            /\ p.content = locals[r].content
        /\ Cardinality(posts) = 2

\* C9: a request holds exactly one session, open exactly while the request
\* runs.  Whatever way the request ended (a return, a raised 400 or 404, a
\* failed db.commit() or db.refresh(), a refused request, a response that
\* could not be built), its next and last step closes the session, and a
\* running request is never blocked, so it gets there: no session is open
\* once its request has finished.
C9_SessionClosed ==
    /\ [](\A r \in Reqs :
            /\ session[r] = "open" <=> pc[r] # "idle"
            /\ pc[r] # "idle" => ENABLED Step(r))
    /\ [][\A r \in Reqs :
            Moved(r) =>
                /\ pc[r] = "idle" => pc'[r] = "start" /\ session'[r] = "open"
                /\ pc[r] # "idle" => session[r] = "open"
                /\ pc[r] = "close" => pc'[r] = "idle" /\ session'[r] = "closed"
                /\ pc'[r] = "idle" => pc[r] = "close"]_vars

\* one request has ended and its session is closed; the handler of the
\* other has failed in db.commit() or db.refresh() and its session is still
\* to be closed
C9_Witness ==
    \E r, q \in Reqs :
        /\ pc[r] = "idle" /\ session[r] = "closed"
        /\ pc[q] = "close" /\ resp[q].status = 500 /\ session[q] = "open"

\* C10: a POST /users/ that carries the query parameters user_id and email
\* is dispatched to change_user_email.
C10_ChangeEmailReachable ==
    (/\ http # NoRequest
     /\ http.method = "POST"
     /\ http.target = [path |-> "/users/", id |-> 0]
     /\ http.payload = "user_id&email"
     /\ routed # NoRoute)
        => routed = [endpoint |-> "change_user_email", status |-> 200]

====
